---- MODULE Spec2Model ----
(***************************************************************************)
(* EnvtestContainer (python/testcontainers_envtest/envtest.py): an adapter *)
(* over a generic container that resolves an image from a Kubernetes       *)
(* version, waits for a readiness log line, and rewrites the server        *)
(* address of the kubeconfig read out of the container.                    *)
(*                                                                         *)
(* Text is a sequence of code points, bytes are a sequence of 0..255.      *)
(* Image references and version strings, which the code only compares and  *)
(* concatenates, are strings.  An optional argument is <<>> (None) or      *)
(* <<value>>.                                                              *)
(***************************************************************************)
EXTENDS Integers, Sequences, FiniteSets, TLC

(***************************************************************************)
(* Bounds of the model.                                                    *)
(***************************************************************************)
\* A kubeconfig file is a concatenation of at most MaxFrags fragments.
MaxFrags == 2
\* The container writes at most MaxLogLines lines to its log.
MaxLogLines == 2
\* The caller asks for at most MaxTempFiles kubeconfig files.
MaxTempFiles == 1
\* Seconds that pass between two polls of the readiness wait.
PollInterval == 50

(***************************************************************************)
(* Characters.                                                             *)
(***************************************************************************)
Digits == <<"0","1","2","3","4","5","6","7","8","9">>
Upper ==
  <<"A","B","C","D","E","F","G","H","I","J","K","L","M",
    "N","O","P","Q","R","S","T","U","V","W","X","Y","Z">>
Lower ==
  <<"a","b","c","d","e","f","g","h","i","j","k","l","m",
    "n","o","p","q","r","s","t","u","v","w","x","y","z">>

\* Position of c in table, 0 when it is not there.
IndexIn(table, c) ==
  IF \E k \in 1..Len(table) : table[k] = c
  THEN CHOOSE k \in 1..Len(table) : table[k] = c
  ELSE 0

\* The code point of an ASCII character used by the source's literals.
Ord(c) ==
  IF IndexIn(Digits, c) > 0 THEN 47 + IndexIn(Digits, c)
  ELSE IF IndexIn(Upper, c) > 0 THEN 64 + IndexIn(Upper, c)
  ELSE IF IndexIn(Lower, c) > 0 THEN 96 + IndexIn(Lower, c)
  ELSE CASE c = "\n" -> 10
         [] c = " " -> 32
         [] c = "!" -> 33
         [] c = "." -> 46
         [] c = "/" -> 47
         [] c = ":" -> 58

\* A string literal of the source, as text.
Lit(chars) == [k \in 1..Len(chars) |-> Ord(chars[k])]

HexDigits == Lit(<<"0","1","2","3","4","5","6","7","8","9","a","b","c","d","e","f">>)

None == <<>>
Some(v) == <<v>>

\* Python truth value of an optional string: None and "" are false.
Truthy(opt) == opt # None /\ opt[1] # ""

(***************************************************************************)
(* Class constants.                                                        *)
(***************************************************************************)
DEFAULT_IMAGE == "ghcr.io/roma-glushko/testcontainers-envtest:latest"
DEFAULT_KUBERNETES_VERSION == "1.31.0"
API_SERVER_PORT == 6443
KUBECONFIG_PATH == Lit(<<"/","t","m","p","/","k","u","b","e","c","o","n","f","i","g">>)
READY_LINE == "Envtest is ready!"
READY_TIMEOUT == 120

(***************************************************************************)
(* __init__                                                                *)
(***************************************************************************)
\* Mutant: the requested version is dropped.
InitKubernetesVersion_AlwaysDefault(kubernetes_version) == DEFAULT_KUBERNETES_VERSION

\* self._kubernetes_version = kubernetes_version or DEFAULT_KUBERNETES_VERSION
InitKubernetesVersion(kubernetes_version) ==
  IF Truthy(kubernetes_version) THEN kubernetes_version[1]
  ELSE DEFAULT_KUBERNETES_VERSION

\* Mutant: a requested version overrides an explicit image.
InitImage_VersionFirst(image, kubernetes_version) ==
  IF Truthy(kubernetes_version) /\ kubernetes_version[1] # DEFAULT_KUBERNETES_VERSION
  THEN "ghcr.io/roma-glushko/testcontainers-envtest:v" \o kubernetes_version[1]
  ELSE IF image = None THEN DEFAULT_IMAGE ELSE image[1]

\* Mutant: the tag is the version without its v.
InitImage_NoV(image, kubernetes_version) ==
  IF image = None
  THEN IF Truthy(kubernetes_version) /\ kubernetes_version[1] # DEFAULT_KUBERNETES_VERSION
       THEN "ghcr.io/roma-glushko/testcontainers-envtest:" \o kubernetes_version[1]
       ELSE DEFAULT_IMAGE
  ELSE image[1]

\* Mutant: the default version is not told apart from the others.
InitImage_TagDefault(image, kubernetes_version) ==
  IF image = None
  THEN IF Truthy(kubernetes_version)
       THEN "ghcr.io/roma-glushko/testcontainers-envtest:v" \o kubernetes_version[1]
       ELSE DEFAULT_IMAGE
  ELSE image[1]

\* The image handed to the underlying container.
InitImage(image, kubernetes_version) ==
  IF image = None
  THEN IF Truthy(kubernetes_version) /\ kubernetes_version[1] # DEFAULT_KUBERNETES_VERSION
       THEN "ghcr.io/roma-glushko/testcontainers-envtest:v" \o kubernetes_version[1]
       ELSE DEFAULT_IMAGE
  ELSE image[1]

\* with_exposed_ports(port) on the ports the keyword arguments configured.
with_exposed_ports(configured, port) == configured \cup {port}

\* Mutant: configured ports replace the API server port.
InitPorts_KwargsOnly(kwargsPorts) ==
  IF kwargsPorts = {} THEN {API_SERVER_PORT} ELSE kwargsPorts

InitPorts(kwargsPorts) == with_exposed_ports(kwargsPorts, API_SERVER_PORT)

(***************************************************************************)
(* Text conversions.                                                       *)
(***************************************************************************)
IsLead2(b) == b \in 194..223
IsCont(b) == b \in 128..191

\* Whether decode returned text, not raised: an undecodable byte decodes to
\* -1 and ends the text (UnicodeDecodeError).
Decoded(text) == Len(text) = 0 \/ text[Len(text)] # -1

\* bytes.decode("utf-8") of bytes[lo..hi], one- and two-byte sequences: the
\* range is decoded in two halves cut between two sequences, and the second
\* half only when the first decoded.
RECURSIVE DecodeRange(_, _, _)
DecodeRange(bytes, lo, hi) ==
  IF lo > hi THEN <<>>
  ELSE IF lo = hi THEN (IF bytes[lo] < 128 THEN <<bytes[lo]>> ELSE <<-1>>)
  ELSE IF hi = lo + 1 /\ IsLead2(bytes[lo]) /\ IsCont(bytes[hi])
  THEN <<(bytes[lo] - 192) * 64 + (bytes[hi] - 128)>>
  ELSE LET half == (lo + hi) \div 2
           cut == IF IsLead2(bytes[half]) /\ IsCont(bytes[half + 1])
                  THEN IF half > lo THEN half - 1 ELSE half + 1
                  ELSE half
           left == DecodeRange(bytes, lo, cut)
       IN  IF Decoded(left) THEN left \o DecodeRange(bytes, cut + 1, hi) ELSE left

decode(bytes) == DecodeRange(bytes, 1, Len(bytes))

\* str(n) of a non-negative integer.
RECURSIVE IntToStr(_)
IntToStr(n) ==
  IF n < 10 THEN <<48 + n>> ELSE IntToStr(n \div 10) \o <<48 + (n % 10)>>

\* One byte as repr(bytes) writes it between single quotes.
ReprByte(b) ==
  CASE b = 10 -> <<92, 110>>
    [] b = 9 -> <<92, 116>>
    [] b = 13 -> <<92, 114>>
    [] b = 92 -> <<92, 92>>
    [] b = 39 -> <<92, 39>>
    [] b \in 32..126 /\ b # 92 /\ b # 39 -> <<b>>
    [] OTHER -> <<92, 120, HexDigits[(b \div 16) + 1], HexDigits[(b % 16) + 1]>>

\* The bytes lo..hi, each as repr writes it.
RECURSIVE ReprRange(_, _, _)
ReprRange(bytes, lo, hi) ==
  IF lo > hi THEN <<>>
  ELSE IF lo = hi THEN ReprByte(bytes[lo])
  ELSE ReprRange(bytes, lo, (lo + hi) \div 2) \o ReprRange(bytes, (lo + hi) \div 2 + 1, hi)

\* f"{output}" of a bytes object: b'...' (the outputs of this model hold no
\* quote character, so repr chooses single quotes).
BytesRepr(bytes) == <<98, 39>> \o ReprRange(bytes, 1, Len(bytes)) \o <<39>>

(***************************************************************************)
(* The pattern r"server: https://(?:localhost|127\.0\.0\.1):\d+".          *)
(***************************************************************************)
ServerPrefix == Lit(<<"s","e","r","v","e","r",":"," ","h","t","t","p","s",":","/","/">>)
Localhost == Lit(<<"l","o","c","a","l","h","o","s","t">>)
Loopback == Lit(<<"1","2","7",".","0",".","0",".","1">>)
Colon == Lit(<<":">>)

\* \d of a str pattern: the ASCII digits (and the other Unicode decimal
\* digits, of which only the Arabic-Indic ones are two-byte sequences here).
IsDigit(c) == c \in 48..57 \/ c \in 1632..1641

\* Whether the literal lit stands in s at position i.
LiteralAt(s, i, lit) ==
  /\ i + Len(lit) - 1 <= Len(s)
  /\ \A k \in 1..Len(lit) : s[i + k - 1] = lit[k]

\* Mutant: the dots of 127\.0\.0\.1 are not escaped and match any character.
HostEnd_AnyDot(s, i) ==
  IF LiteralAt(s, i, Localhost) THEN i + Len(Localhost)
  ELSE IF /\ i + Len(Loopback) - 1 <= Len(s)
          /\ \A k \in 1..Len(Loopback) : Loopback[k] = 46 \/ s[i + k - 1] = Loopback[k]
       THEN i + Len(Loopback)
  ELSE 0

\* (?:localhost|127\.0\.0\.1) at position i: the position after it, or 0.
HostEnd(s, i) ==
  IF LiteralAt(s, i, Localhost) THEN i + Len(Localhost)
  ELSE IF LiteralAt(s, i, Loopback) THEN i + Len(Loopback)
  ELSE 0

\* Mutant: \d in place of \d+, one digit only.
DigitsEnd_OneDigit(s, i) == IF i <= Len(s) /\ IsDigit(s[i]) THEN i + 1 ELSE i

\* \d+ is greedy: the first position at or after i that holds no digit.
RECURSIVE DigitsEnd(_, _)
DigitsEnd(s, i) ==
  IF i <= Len(s) /\ IsDigit(s[i]) THEN DigitsEnd(s, i + 1) ELSE i

\* The pattern matched at position i: the position after the match, or 0.
MatchEnd(s, i) ==
  IF ~LiteralAt(s, i, ServerPrefix) THEN 0
  ELSE LET h == HostEnd(s, i + Len(ServerPrefix))
       IN  IF h = 0 \/ ~LiteralAt(s, h, Colon) THEN 0
           ELSE LET e == DigitsEnd(s, h + 1)
                IN  IF e = h + 1 THEN 0 ELSE e

\* The leftmost position at or after i where the pattern matches, or 0.
NextMatch(s, i) ==
  LET starts == {j \in i..Len(s) : MatchEnd(s, j) > 0}
  IN  IF starts = {} THEN 0 ELSE CHOOSE j \in starts : \A k \in starts : j <= k

\* Mutant: re.sub with count=1, the first match only.
SubFrom_FirstOnly(repl, s, i) ==
  LET n == NextMatch(s, i)
  IN  IF n = 0 THEN SubSeq(s, i, Len(s))
      ELSE SubSeq(s, i, n - 1) \o repl \o SubSeq(s, MatchEnd(s, n), Len(s))

\* re.sub(pattern, repl, s) from position i: the scan copies s up to the
\* leftmost match, writes repl for it and goes on after it (repl holds no
\* backslash, so it is written as it is).
RECURSIVE SubFrom(_, _, _)
SubFrom(repl, s, i) ==
  LET n == NextMatch(s, i)
  IN  IF n = 0 THEN SubSeq(s, i, Len(s))
      ELSE SubSeq(s, i, n - 1) \o repl \o SubFrom(repl, s, MatchEnd(s, n))

re_sub(repl, s) == SubFrom(repl, s, 1)

HttpsScheme == Lit(<<"h","t","t","p","s",":","/","/">>)
ServerKey == Lit(<<"s","e","r","v","e","r",":"," ">>)
FailedPrefix ==
  Lit(<<"F","a","i","l","e","d"," ","t","o"," ","r","e","a","d"," ",
        "k","u","b","e","c","o","n","f","i","g",":"," ">>)

\* f"https://{host}:{port}"
ApiServerUrl(host, port) == HttpsScheme \o host \o Colon \o IntToStr(port)

\* f"server: {api_server_url}"
ServerLine(api_server_url) == ServerKey \o api_server_url

\* f"Failed to read kubeconfig: {output}"
FailedToRead(output) == FailedPrefix \o BytesRepr(output)

(***************************************************************************)
(* Inputs: constructor arguments and what the container runtime holds.     *)
(***************************************************************************)
ImageArgs == {None, Some("my-registry/envtest:custom"), Some("")}
VersionArgs == {None, Some(""), Some("1.31.0"), Some("1.30.0")}
KwargsPorts == {{}, {8080}}

PortDigits == Lit(<<"6","4","4","3">>)
FragLocal == ServerPrefix \o Localhost \o Colon \o PortDigits
FragLoop == ServerPrefix \o Loopback \o Colon \o PortDigits
FragExternal ==
  ServerPrefix \o Lit(<<"k","u","b","e","r","n","e","t","e","s",".","d","e","f","a","u","l","t">>)
    \o Colon \o Lit(<<"4","4","3">>)
\* Other content, with a two-byte character in it.
FragName == Lit(<<"\n"," "," ","n","a","m","e",":"," ","c","a","f">>) \o <<195, 169, 10>>
FragDigit == Lit(<<"7">>)
\* A loopback entry without a port.
FragNoPort == ServerPrefix \o Localhost \o Colon
\* An address that differs from 127.0.0.1 in a dot only.
FragNotDot == ServerPrefix \o Lit(<<"1","2","7","x","0",".","0",".","1">>) \o Colon \o PortDigits
\* An entry that already holds a routable address.
FragReal ==
  ServerPrefix \o Lit(<<"2","0","3",".","0",".","1","1","3",".","5">>) \o Colon \o PortDigits
\* A byte that is not UTF-8.
FragInvalid == <<255>>

Fragments ==
  {FragLocal, FragLoop, FragExternal, FragName, FragDigit, FragNoPort, FragNotDot, FragReal,
   FragInvalid}

\* The files of at most n fragments.
RECURSIVE FilesOf(_)
FilesOf(n) ==
  IF n = 0 THEN {<<>>}
  ELSE FilesOf(n - 1) \cup {f \o g : f \in FilesOf(n - 1), g \in Fragments}

Hosts == {Localhost, Lit(<<"2","0","3",".","0",".","1","1","3",".","5">>)}
MappedPorts == {32768, 6443}
LogLines == {"Starting etcd", READY_LINE}
CatErrors ==
  {Lit(<<"c","a","t",":"," ","/","t","m","p","/","k","u","b","e","c","o","n","f","i","g",":"," ",
         "N","o"," ","s","u","c","h"," ","f","i","l","e","\n">>)}
ExitCodes == {1}

(***************************************************************************)
(* State.                                                                  *)
(***************************************************************************)
VARIABLES
  argImage,            \* __init__'s image argument
  argVersion,          \* __init__'s kubernetes_version argument
  image,               \* self.image
  kubernetes_version,  \* self._kubernetes_version
  ports,               \* the exposed-ports configuration
  status,              \* the underlying container: unstarted, started, stopped
  hostIp,              \* what get_container_host_ip returns
  mappedPort,          \* the host port the runtime mapped 6443 to, 0 when none
  logs,                \* the lines the container has written
  file,                \* the bytes of /tmp/kubeconfig in the container
  tempFiles,           \* the temporary files written, by creation order
  pc,                  \* idle, or wait_for_logs while start blocks
  elapsed,             \* seconds the readiness wait has lasted
  lastOp,              \* the last operation called
  lastExec,            \* the outcome of its exec call
  result               \* what it returned or raised, and the calls it made

vars ==
  <<argImage, argVersion, image, kubernetes_version, ports, status, hostIp, mappedPort,
    logs, file, tempFiles, pc, elapsed, lastOp, lastExec, result>>

config == <<argImage, argVersion, image, kubernetes_version, ports>>
runtime == <<status, hostIp, mappedPort, logs, file>>

\* No exec call returned: none was made, or it raised.
NoExec == [returned |-> FALSE, exit_code |-> -1, output |-> <<>>]
NoResult == [kind |-> "none", value |-> <<>>, calls |-> <<>>]

\* The state __init__ leaves, for the given arguments.
Constructed(img, ver, kwp) ==
  /\ argImage = img
  /\ argVersion = ver
  /\ kubernetes_version = InitKubernetesVersion(ver)
  /\ image = InitImage(img, ver)
  /\ ports = InitPorts(kwp)
  /\ status = "unstarted"
  /\ mappedPort = 0
  /\ logs = <<>>
  /\ tempFiles = <<>>
  /\ pc = "idle"
  /\ elapsed = 0
  /\ lastOp = "__init__"
  /\ lastExec = NoExec
  /\ result = NoResult

Init ==
  /\ \E img \in ImageArgs, ver \in VersionArgs, kwp \in KwargsPorts : Constructed(img, ver, kwp)
  /\ hostIp = Localhost
  /\ file = FragLocal

(***************************************************************************)
(* start                                                                   *)
(***************************************************************************)
\* super().start(): the runtime creates the container and maps its ports;
\* start has not returned yet.
StartContainer ==
  /\ pc = "idle"
  /\ status # "started"
  /\ \E p \in MappedPorts :
       /\ status' = "started"
       /\ mappedPort' = p
       /\ logs' = <<>>
       /\ pc' = "wait_for_logs"
       /\ elapsed' = 0
  /\ lastOp' = "start"
  /\ lastExec' = NoExec
  /\ result' = NoResult
  /\ UNCHANGED <<config, hostIp, file, tempFiles>>

\* super().start() raises: start ends before the wait.
StartFails ==
  /\ pc = "idle"
  /\ status # "started"
  /\ lastOp' = "start"
  /\ lastExec' = NoExec
  /\ result' = [kind |-> "ContainerError", value |-> <<>>, calls |-> <<"super.start">>]
  /\ UNCHANGED <<config, runtime, tempFiles, pc, elapsed>>

\* The predicate of wait_for_logs: the ready line is in the log.
LogsReady(lines) == \E k \in 1..Len(lines) : lines[k] = READY_LINE

\* Mutant: a timeout ends the wait as success.
PollOutcome_TimeoutReturns(lines, waited) ==
  IF LogsReady(lines) \/ waited > READY_TIMEOUT THEN "return" ELSE "sleep"

\* What one poll of wait_for_logs(self, "Envtest is ready!", timeout=120) does.
PollOutcome(lines, waited) ==
  IF LogsReady(lines) THEN "return"
  ELSE IF waited > READY_TIMEOUT THEN "TimeoutError"
  ELSE "sleep"

\* Mutant: start stops the container when the readiness wait times out.
WaitForLogs_StopOnTimeout ==
  /\ pc = "wait_for_logs"
  /\ LET o == PollOutcome(logs, elapsed) IN
       /\ IF o = "sleep"
          THEN /\ elapsed' = elapsed + PollInterval
               /\ UNCHANGED <<pc, lastOp, lastExec, result>>
          ELSE /\ pc' = "idle"
               /\ elapsed' = 0
               /\ lastOp' = "start"
               /\ lastExec' = NoExec
               /\ result' = [kind |-> IF o = "return" THEN "self" ELSE o,
                             value |-> <<>>,
                             calls |-> <<"super.start", "wait_for_logs">>]
       /\ IF o = "TimeoutError"
          THEN /\ status' = "stopped"
               /\ mappedPort' = 0
               /\ logs' = <<>>
               /\ UNCHANGED <<hostIp, file>>
          ELSE UNCHANGED runtime
  /\ UNCHANGED <<config, tempFiles>>

\* One poll of the readiness wait; start returns self or raises after it.
WaitForLogs ==
  /\ pc = "wait_for_logs"
  /\ LET o == PollOutcome(logs, elapsed) IN
       IF o = "sleep"
       THEN /\ elapsed' = elapsed + PollInterval
            /\ UNCHANGED <<pc, lastOp, lastExec, result>>
       ELSE /\ pc' = "idle"
            /\ elapsed' = 0
            /\ lastOp' = "start"
            /\ lastExec' = NoExec
            /\ result' = [kind |-> IF o = "return" THEN "self" ELSE o,
                          value |-> <<>>,
                          calls |-> <<"super.start", "wait_for_logs">>]
  /\ UNCHANGED <<config, runtime, tempFiles>>

\* The container writes a line to its log.
ContainerLog ==
  /\ status = "started"
  /\ Len(logs) < MaxLogLines
  /\ \E l \in LogLines : logs' = Append(logs, l)
  /\ UNCHANGED <<config, status, hostIp, mappedPort, file, tempFiles, pc, elapsed,
                 lastOp, lastExec, result>>

\* stop(), inherited: the runtime removes the container.
Stop ==
  /\ pc = "idle"
  /\ status = "started"
  /\ status' = "stopped"
  /\ mappedPort' = 0
  /\ logs' = <<>>
  /\ lastOp' = "stop"
  /\ lastExec' = NoExec
  /\ result' = [kind |-> "none", value |-> <<>>, calls |-> <<"super.stop">>]
  /\ UNCHANGED <<config, hostIp, file, tempFiles, pc, elapsed>>

(***************************************************************************)
(* Accessors.                                                              *)
(***************************************************************************)
\* What self.exec(f"cat {KUBECONFIG_PATH}") can do: raise when there is no
\* running container, else return (0, the file) or a failure of cat.
ExecOutcomes ==
  IF status = "started"
  THEN {[returned |-> TRUE, exit_code |-> 0, output |-> file]}
         \cup {[returned |-> TRUE, exit_code |-> c, output |-> o] : c \in ExitCodes, o \in CatErrors}
  ELSE {NoExec}

\* get_api_server_url: host and mapped port of the running container.
get_api_server_url ==
  IF status = "started"
  THEN [kind |-> "ok", value |-> ApiServerUrl(hostIp, mappedPort),
        calls |-> <<"get_container_host_ip", "get_exposed_port">>]
  ELSE [kind |-> "ContainerError", value |-> <<>>,
        calls |-> <<"get_container_host_ip", "get_exposed_port">>]

\* Mutant: the exit status of the read is not looked at.
get_kubeconfig_IgnoreExit(ex) ==
  IF ~ex.returned
  THEN [kind |-> "ContainerError", value |-> <<>>, calls |-> <<"exec">>]
  ELSE LET kubeconfig == decode(ex.output)
           url == get_api_server_url
       IN  IF ~Decoded(kubeconfig)
           THEN [kind |-> "UnicodeDecodeError", value |-> <<>>, calls |-> <<"exec", "decode">>]
           ELSE IF url.kind # "ok"
           THEN [kind |-> url.kind, value |-> <<>>,
                 calls |-> <<"exec", "decode", "get_api_server_url">>]
           ELSE [kind |-> "ok",
                 value |-> re_sub(ServerLine(url.value), kubeconfig),
                 calls |-> <<"exec", "decode", "get_api_server_url", "re.sub">>]

\* get_kubeconfig, given the outcome ex of its exec call.
get_kubeconfig(ex) ==
  IF ~ex.returned
  THEN [kind |-> "ContainerError", value |-> <<>>, calls |-> <<"exec">>]
  ELSE IF ex.exit_code # 0
  THEN [kind |-> "RuntimeError", value |-> FailedToRead(ex.output), calls |-> <<"exec">>]
  ELSE LET kubeconfig == decode(ex.output)
           url == get_api_server_url
       IN  IF ~Decoded(kubeconfig)
           THEN [kind |-> "UnicodeDecodeError", value |-> <<>>, calls |-> <<"exec", "decode">>]
           ELSE IF url.kind # "ok"
           THEN [kind |-> url.kind, value |-> <<>>,
                 calls |-> <<"exec", "decode", "get_api_server_url">>]
           ELSE [kind |-> "ok",
                 value |-> re_sub(ServerLine(url.value), kubeconfig),
                 calls |-> <<"exec", "decode", "get_api_server_url", "re.sub">>]

GetApiServerUrl ==
  /\ pc = "idle"
  /\ lastOp' = "get_api_server_url"
  /\ lastExec' = NoExec
  /\ result' = get_api_server_url
  /\ UNCHANGED <<config, runtime, tempFiles, pc, elapsed>>

GetKubeconfig ==
  /\ pc = "idle"
  /\ \E ex \in ExecOutcomes :
       /\ lastExec' = ex
       /\ result' = get_kubeconfig(ex)
  /\ lastOp' = "get_kubeconfig"
  /\ UNCHANGED <<config, runtime, tempFiles, pc, elapsed>>

\* get_kubeconfig_path: the kubeconfig in a new temporary file, never deleted;
\* the path is the file's place in tempFiles.
GetKubeconfigPath ==
  /\ pc = "idle"
  /\ Len(tempFiles) < MaxTempFiles
  /\ \E ex \in ExecOutcomes :
       LET k == get_kubeconfig(ex) IN
       /\ lastExec' = ex
       /\ IF k.kind = "ok"
          THEN /\ tempFiles' = Append(tempFiles, k.value)
               /\ result' = [kind |-> "path", value |-> <<Len(tempFiles) + 1>>,
                             calls |-> k.calls \o <<"NamedTemporaryFile", "write">>]
          ELSE /\ tempFiles' = tempFiles
               /\ result' = k
  /\ lastOp' = "get_kubeconfig_path"
  /\ UNCHANGED <<config, runtime, pc, elapsed>>

\* get_kubernetes_client: ImportError without the kubernetes package, else a
\* client loaded from the kubeconfig.
GetKubernetesClient ==
  /\ pc = "idle"
  /\ \E installed \in BOOLEAN, ex \in ExecOutcomes :
       IF ~installed
       THEN /\ lastExec' = NoExec
            /\ result' = [kind |-> "ImportError", value |-> <<>>, calls |-> <<"import">>]
       ELSE LET k == get_kubeconfig(ex) IN
            /\ lastExec' = ex
            /\ result' = IF k.kind = "ok"
                         THEN [kind |-> "ApiClient", value |-> k.value,
                               calls |-> <<"import">> \o k.calls \o <<"safe_load", "load_and_set">>]
                         ELSE [k EXCEPT !.calls = <<"import">> \o k.calls]
  /\ lastOp' = "get_kubernetes_client"
  /\ UNCHANGED <<config, runtime, tempFiles, pc, elapsed>>

(***************************************************************************)
(* Specifications.                                                         *)
(***************************************************************************)
Next ==
  \/ StartContainer
  \/ StartFails
  \/ WaitForLogs
  \/ ContainerLog
  \/ Stop
  \/ GetApiServerUrl
  \/ GetKubeconfig
  \/ GetKubeconfigPath
  \/ GetKubernetesClient

Spec == Init /\ [][Next]_vars

\* get_api_server_url and get_kubeconfig on a container that start has returned
\* for, with the default configuration and any file and endpoint.
InitRewrite ==
  /\ argImage = None
  /\ argVersion = None
  /\ kubernetes_version = InitKubernetesVersion(None)
  /\ image = InitImage(None, None)
  /\ ports = InitPorts({})
  /\ status = "started"
  /\ hostIp \in Hosts
  /\ mappedPort \in MappedPorts
  /\ logs = <<READY_LINE>>
  /\ file \in FilesOf(MaxFrags)
  /\ tempFiles = <<>>
  /\ pc = "idle"
  /\ elapsed = 0
  /\ lastOp = "start"
  /\ lastExec = NoExec
  /\ result = [kind |-> "self", value |-> <<>>, calls |-> <<"super.start", "wait_for_logs">>]

NextRewrite ==
  \/ GetApiServerUrl
  \/ GetKubeconfig

SpecRewrite == InitRewrite /\ [][NextRewrite]_vars

(***************************************************************************)
(* Image resolution.                                                       *)
(***************************************************************************)
VersionedPrefix == "ghcr.io/roma-glushko/testcontainers-envtest:v"

\* C1: with an explicit image, self.image is that image verbatim, whatever
\* the kubernetes_version argument is (absent, the default, or another).
C1_ExplicitImageWins == argImage # None => image = argImage[1]

C1_Witness ==
  /\ argImage = Some("my-registry/envtest:custom")
  /\ argVersion = Some("1.30.0")
  /\ image = "my-registry/envtest:custom"
  /\ lastOp = "get_kubeconfig"

\* C2 as stated: without an explicit image, every version string V other than
\* 1.31.0 gives the image ghcr.io/roma-glushko/testcontainers-envtest:vV.
C2_Original ==
  (argImage = None /\ argVersion # None /\ argVersion[1] # DEFAULT_KUBERNETES_VERSION)
    => image = VersionedPrefix \o argVersion[1]

\* C2: without an explicit image, every non-empty version string V other
\* than 1.31.0 gives the image ghcr.io/roma-glushko/testcontainers-envtest:vV;
\* the empty string gives the default image.
C2_VersionedImage ==
  /\ (argImage = None /\ argVersion # None /\ argVersion[1] # ""
        /\ argVersion[1] # DEFAULT_KUBERNETES_VERSION)
       => image = VersionedPrefix \o argVersion[1]
  /\ (argImage = None /\ argVersion = Some("")) => image = DEFAULT_IMAGE

C2_Witness ==
  /\ argImage = None
  /\ argVersion = Some("1.30.0")
  /\ image = "ghcr.io/roma-glushko/testcontainers-envtest:v1.30.0"

\* C3: without an explicit image and with no version or version 1.31.0, the
\* image is DEFAULT_IMAGE (tag latest), not the v1.31.0 image.
C3_DefaultImage ==
  (argImage = None /\ argVersion \in {None, Some(DEFAULT_KUBERNETES_VERSION)})
    => /\ image = DEFAULT_IMAGE
       /\ image # VersionedPrefix \o DEFAULT_KUBERNETES_VERSION

C3_Witness ==
  /\ argImage = None
  /\ argVersion = Some("1.31.0")
  /\ image = "ghcr.io/roma-glushko/testcontainers-envtest:latest"

(***************************************************************************)
(* Ports, version, readiness.                                              *)
(***************************************************************************)
\* C8: the exposed-ports configuration holds 6443 after construction, for
\* all image, version and port arguments, and after every later operation.
C8_PortExposed == API_SERVER_PORT \in ports

C8_Witness ==
  /\ ports = {8080, 6443}
  /\ argImage # None
  /\ argVersion = Some("1.30.0")
  /\ lastOp = "get_kubeconfig_path"
  /\ result.kind = "path"

\* C9 as stated, the accessor: kubernetes_version is the version string
\* requested at construction, or 1.31.0 when none was requested.
C9_Original ==
  kubernetes_version = IF argVersion # None THEN argVersion[1] ELSE DEFAULT_KUBERNETES_VERSION

\* C9: kubernetes_version is the requested version string when one that is not
\* empty was requested, also with an explicit image, and 1.31.0 when none or
\* the empty string was; no step changes the version or the image.
C9_VersionKept ==
  /\ [](kubernetes_version =
          IF argVersion # None /\ argVersion[1] # "" THEN argVersion[1]
          ELSE DEFAULT_KUBERNETES_VERSION)
  /\ [][image' = image /\ kubernetes_version' = kubernetes_version]_vars

C9_Witness ==
  /\ argImage = Some("my-registry/envtest:custom")
  /\ argVersion = Some("1.30.0")
  /\ kubernetes_version = "1.30.0"
  /\ lastOp = "get_kubernetes_client"
  /\ result.kind = "ApiClient"

\* C7: the readiness wait runs only on a started container; start returns
\* self only from a poll that finds the ready line in the log, and raises
\* TimeoutError from every poll that comes after more than 120 seconds and
\* does not find it; nothing else ends the wait.
C7_StartReadiness ==
  /\ [](pc = "wait_for_logs" => status = "started")
  /\ [][(pc = "wait_for_logs" /\ pc' = "idle")
          => /\ lastOp' = "start"
             /\ result'.calls = <<"super.start", "wait_for_logs">>
             /\ result'.kind \in {"self", "TimeoutError"}
             /\ result'.kind = "self" <=> LogsReady(logs)
             /\ result'.kind = "TimeoutError" <=> (~LogsReady(logs) /\ elapsed > READY_TIMEOUT)]_vars
  /\ [][(pc = "wait_for_logs" /\ ~LogsReady(logs) /\ elapsed > READY_TIMEOUT)
          => (pc' = "wait_for_logs" \/ result'.kind = "TimeoutError")]_vars

C7_Witness ==
  /\ lastOp = "start"
  /\ result.kind = "TimeoutError"
  /\ status = "started"
  /\ ~LogsReady(logs)

(***************************************************************************)
(* The kubeconfig rewrite, stated on the text and not by the scan.         *)
(***************************************************************************)
\* The text read from the container, the endpoint, and the replacement.
ReadText == decode(file)
Endpoint == ApiServerUrl(hostIp, mappedPort)
Replacement == ServerKey \o Endpoint

\* get_kubeconfig has returned a text.
KubeconfigReturned == lastOp = "get_kubeconfig" /\ result.kind = "ok"

\* sub stands in s at position i.
Occurs(s, i, sub) ==
  /\ i >= 1
  /\ i + Len(sub) - 1 <= Len(s)
  /\ SubSeq(s, i, i + Len(sub) - 1) = sub

Contains(s, sub) == \E i \in 1..Len(s) : Occurs(s, i, sub)

\* s[i..j] is server: https://<host>:<digits> for the loopback host h, with
\* all the digits that follow.
IsEntryOf(s, i, j, h) ==
  LET head == ServerPrefix \o h \o Colon
  IN  /\ Occurs(s, i, head)
      /\ i + Len(head) <= j
      /\ j <= Len(s)
      /\ \A k \in (i + Len(head))..j : IsDigit(s[k])
      /\ j = Len(s) \/ ~IsDigit(s[j + 1])

\* The loopback server entries of s, as <<first, last, host>>.
Entries(s) ==
  UNION {{<<i, j, h>> : j \in {j \in i..Len(s) : IsEntryOf(s, i, j, h)}} :
           <<i, h>> \in {x \in (1..Len(s)) \X {Localhost, Loopback} : Occurs(s, x[1], ServerPrefix \o x[2])}}

\* The positions the entries take.
Covered(ents) == UNION {e[1]..e[2] : e \in ents}

\* How far position p of the text moves when every entry before it is
\* replaced by repl.
Shift(ents, cov, repl, p) ==
  Cardinality({e \in ents : e[2] < p}) * Len(repl) - Cardinality({k \in cov : k < p})

\* out is s with exactly the entries replaced by repl: the replacement stands
\* at every entry's place and every other character is kept, in its place.
FrameHolds(s, repl, out) ==
  LET ents == Entries(s)
      cov == Covered(ents)
  IN  /\ Len(out) = Len(s) + Shift(ents, cov, repl, Len(s) + 1)
      /\ \A e \in ents : Occurs(out, e[1] + Shift(ents, cov, repl, e[1]), repl)
      /\ \A p \in 1..Len(s) :
           p \notin cov => out[p + Shift(ents, cov, repl, p)] = s[p]

\* C4 as stated: a text without loopback server entries is returned as it was
\* read and does not contain the resolved endpoint.
C4_Original ==
  (KubeconfigReturned /\ Entries(ReadText) = {})
    => /\ result.value = ReadText
       /\ ~Contains(result.value, Endpoint)

\* C4: a text without loopback server entries is returned as it was read; it
\* contains the resolved endpoint exactly when the text read contained it.
C4_NoEntryIdentity ==
  (KubeconfigReturned /\ Entries(ReadText) = {})
    => /\ result.value = ReadText
       /\ Contains(result.value, Endpoint) <=> Contains(ReadText, Endpoint)

C4_Witness ==
  /\ KubeconfigReturned
  /\ file = FragExternal \o FragName
  /\ result.value = decode(FragExternal \o FragName)
  /\ ~Contains(result.value, Endpoint)

\* C5 as stated: when the text has a localhost (127.0.0.1) server entry, the
\* returned text contains server: E and no occurrence of localhost (127.0.0.1).
C5_Original ==
  LET ents == Entries(ReadText) IN
  (KubeconfigReturned /\ ents # {})
    => /\ Contains(result.value, Replacement)
       /\ (\E e \in ents : e[3] = Localhost) => ~Contains(result.value, Localhost)
       /\ (\E e \in ents : e[3] = Loopback) => ~Contains(result.value, Loopback)

\* C5: when the text has loopback server entries, server: E stands in the
\* returned text at the place of every one of them, and unless the host of E
\* is itself localhost or 127.0.0.1 no loopback server entry is left.
C5_EntriesReplaced ==
  LET ents == Entries(ReadText)
      cov == Covered(ents)
  IN  (KubeconfigReturned /\ ents # {})
        => /\ \A e \in ents :
                Occurs(result.value, e[1] + Shift(ents, cov, Replacement, e[1]), Replacement)
           /\ hostIp \notin {Localhost, Loopback} => Entries(result.value) = {}

C5_Witness ==
  /\ KubeconfigReturned
  /\ file = FragLocal \o FragLoop
  /\ hostIp # Localhost
  /\ result.value = Replacement \o Replacement
  /\ ~Contains(result.value, Localhost)
  /\ ~Contains(result.value, Loopback)

\* C10: the returned text is the text read with exactly its loopback server
\* entries replaced by server: E; every character outside them is kept, in
\* place and in order.
C10_RewriteFrame ==
  KubeconfigReturned => FrameHolds(ReadText, Replacement, result.value)

C10_Witness ==
  /\ KubeconfigReturned
  /\ file = FragName \o FragLoop
  /\ hostIp # Localhost
  /\ result.value = decode(FragName) \o Replacement

\* C6: when the read of /tmp/kubeconfig exits with a non-zero status,
\* get_kubeconfig raises RuntimeError with the captured output in its message
\* and has made no call but exec (no endpoint query, no rewrite); when the
\* status is zero it does not raise RuntimeError.
C6_ReadFailure ==
  (lastOp = "get_kubeconfig" /\ lastExec.returned)
    => IF lastExec.exit_code # 0
       THEN /\ result.kind = "RuntimeError"
            /\ Contains(result.value, BytesRepr(lastExec.output))
            /\ result.calls = <<"exec">>
       ELSE result.kind # "RuntimeError"

C6_Witness ==
  /\ lastOp = "get_kubeconfig"
  /\ lastExec.returned
  /\ lastExec.exit_code = 1
  /\ result.kind = "RuntimeError"
  /\ result.calls = <<"exec">>

(***************************************************************************)
(* A start that fails in the readiness wait.                               *)
(***************************************************************************)
\* start has raised the TimeoutError of the readiness wait.
StartTimedOut == lastOp = "start" /\ result.kind = "TimeoutError"

\* C11: when super().start() succeeded and the readiness wait times out, the
\* step that raises TimeoutError leaves the underlying container as it was,
\* started with its port mapping and its log, and has called neither stop nor
\* anything but super().start() and wait_for_logs; as long as start is the last
\* operation called the container stays started; and a started container
\* leaves that state only by a call of stop, which leaves it stopped.
C11_TimeoutLeavesRunning ==
  /\ [][(pc = "wait_for_logs" /\ pc' = "idle" /\ result'.kind = "TimeoutError")
          => /\ status = "started"
             /\ UNCHANGED <<status, hostIp, mappedPort, logs, file>>
             /\ result'.calls = <<"super.start", "wait_for_logs">>]_vars
  /\ [](StartTimedOut => (status = "started" /\ mappedPort \in MappedPorts))
  /\ [][(status = "started" /\ status' # "started")
          => (lastOp' = "stop" /\ status' = "stopped")]_vars

\* start has raised TimeoutError and the container, still running, has written
\* its ready line afterwards.
C11_Witness ==
  /\ StartTimedOut
  /\ pc = "idle"
  /\ status = "started"
  /\ mappedPort \in MappedPorts
  /\ LogsReady(logs)

====
